---------------------------- MODULE Spec2Model ----------------------------
(***************************************************************************)
(* A model of the persistent, versioned Adaptive Radix Tree.               *)
(*                                                                         *)
(* Nodes live in a heap of reference-counted objects (Arc): a reference is *)
(* an index into the sequence `heap`, NullRef stands for Option::None.     *)
(* A node operation that returns a new node allocates it in the heap and   *)
(* returns the heap with the new reference (NullRef when the source        *)
(* panics).  Arrays of the source are 0-based, sequences here are 1-based: *)
(* slot i of the source is element i + 1 of the sequence.                  *)
(***************************************************************************)
EXTENDS Integers, Sequences, FiniteSets, TLC

VARIABLES
    heap,      \* the Arc-allocated nodes reachable from a live root
    root,      \* Tree.root: a reference, or NullRef for the empty tree
    log,       \* history: the entries inserted and not removed since
    nd,        \* the interior node under test (node-level machine)
    snap,      \* the open snapshot reader: pinned root, expected contents
    rd,        \* the snapshot reader's IterState
    rg         \* the Range iterator and what its next() calls returned

vars == <<heap, root, log, nd, snap, rd, rg>>

-----------------------------------------------------------------------------
(* Bounds of the model.                                                    *)

MaxTs == 1
MaxEntries == 3
MaxTwigValues == 2
MaxFan == 50

(* Program constants.                                                      *)

NullRef == 0
NoIndex == -1
W4 == 4
W16 == 16
W48 == 48
W256 == 256

Values == {"u", "v"}

-----------------------------------------------------------------------------
(* Generic helpers.                                                        *)

Max(a, b) == IF a < b THEN b ELSE a

Min(a, b) == IF a < b THEN a ELSE b

SetMax(S) == CHOOSE x \in S : \A y \in S : y <= x

SetMin(S) == CHOOSE x \in S : \A y \in S : x <= y

(* prefix_after / sub_prefix_from: the bytes of s from 0-based offset i.   *)
From(s, i) == SubSeq(s, i + 1, Len(s))

(* Prefix::longest_common_prefix.                                          *)
LongestCommonPrefix(a, b) ==
    SetMax({i \in 0..Min(Len(a), Len(b)) : SubSeq(a, 1, i) = SubSeq(b, 1, i)})

(* Ord::cmp on byte strings: -1 Less, 0 Equal, 1 Greater.                  *)
KeyCmp(a, b) ==
    LET p == LongestCommonPrefix(a, b)
    IN  IF p = Len(a) /\ p = Len(b) THEN 0
        ELSE IF p = Len(a) THEN -1
        ELSE IF p = Len(b) THEN 1
        ELSE IF a[p + 1] < b[p + 1] THEN -1 ELSE 1

IntCmp(a, b) == IF a < b THEN -1 ELSE IF a = b THEN 0 ELSE 1

-----------------------------------------------------------------------------
(* TwigNode.                                                               *)

LeafValue(key, value, ts) == [key |-> key, value |-> value, ts |-> ts]

TwigNew(prefix) ==
    [kind |-> "Twig", prefix |-> prefix, values |-> <<>>, ts |-> 0]

(* slice::binary_search_by over cmp, the results of the comparator on each  *)
(* element (-1 Less, 0 Equal, 1 Greater): [found, index].  The list of a   *)
(* twig is kept in ts order but searched by key, and a replacement can     *)
(* break the ts order; on a slice not sorted by the comparator the result  *)
(* depends on the standard library the crate is built with.  std names it: *)
(* "early" is the loop that returns at the first Equal, "branchless" the   *)
(* loop of later releases that halves to one element and compares once     *)
(* more.  Both agree on a sorted slice and on one of at most one element.  *)
RECURSIVE SearchEarly(_, _, _)
SearchEarly(cmp, left, right) ==
    IF left < right
    THEN LET mid == left + ((right - left) \div 2)
         IN  IF cmp[mid + 1] = -1 THEN SearchEarly(cmp, mid + 1, right)
             ELSE IF cmp[mid + 1] = 1 THEN SearchEarly(cmp, left, mid)
             ELSE [found |-> TRUE, index |-> mid]
    ELSE [found |-> FALSE, index |-> left]

(* base after `while size > 1` of the branchless loop.                     *)
RECURSIVE SearchBase(_, _, _)
SearchBase(cmp, base, size) ==
    IF size > 1
    THEN SearchBase(cmp,
            IF cmp[base + (size \div 2) + 1] = 1 THEN base
            ELSE base + (size \div 2),
            size - (size \div 2))
    ELSE base

BinarySearchBy(std, cmp) ==
    IF std = "early" THEN SearchEarly(cmp, 0, Len(cmp))
    ELSE IF Len(cmp) = 0 THEN [found |-> FALSE, index |-> 0]
    ELSE IF cmp[SearchBase(cmp, 0, Len(cmp)) + 1] = 0
    THEN [found |-> TRUE, index |-> SearchBase(cmp, 0, Len(cmp))]
    ELSE IF cmp[SearchBase(cmp, 0, Len(cmp)) + 1] = -1
    THEN [found |-> FALSE, index |-> SearchBase(cmp, 0, Len(cmp)) + 1]
    ELSE [found |-> FALSE, index |-> SearchBase(cmp, 0, Len(cmp))]

InsertAt(s, i, x) == SubSeq(s, 1, i) \o <<x>> \o SubSeq(s, i + 1, Len(s))

(* values.iter().map(|v| v.ts).max().unwrap_or(dflt)                       *)
MaxValueTs(values, dflt) ==
    IF Len(values) = 0 THEN dflt
    ELSE SetMax({values[i].ts : i \in 1..Len(values)})

(* new_values of TwigNode::insert.                                         *)
TwigInsertValues(std, values, key, value, ts) ==
    LET lv == LeafValue(key, value, ts)
        byKey == BinarySearchBy(std,
                    [i \in 1..Len(values) |-> KeyCmp(values[i].key, key)])
        byTs == BinarySearchBy(std,
                    [i \in 1..Len(values) |-> IntCmp(values[i].ts, ts)])
    IN  IF byKey.found
        THEN [values EXCEPT ![byKey.index + 1] = lv]
        ELSE InsertAt(values, byTs.index, lv)

TwigInsert(std, twig, key, value, ts) ==
    LET newValues == TwigInsertValues(std, twig.values, key, value, ts)
    IN  [kind |-> "Twig", prefix |-> twig.prefix, values |-> newValues,
         ts |-> MaxValueTs(newValues, twig.ts)]

(* insert_mut that leaves ts as it is.                                     *)
TwigInsertMutKeepTs(std, twig, key, value, ts) ==
    [twig EXCEPT !.values = TwigInsertValues(std, twig.values, key, value, ts)]

(* TwigNode::insert_mut on *self = twig: the if/else on self.values, then  *)
(* self.ts = self.ts().                                                    *)
TwigInsertMut(std, twig, key, value, ts) ==
    LET byKey == BinarySearchBy(std,
                    [i \in 1..Len(twig.values) |->
                        KeyCmp(twig.values[i].key, key)])
        byTs == BinarySearchBy(std,
                    [i \in 1..Len(twig.values) |->
                        IntCmp(twig.values[i].ts, ts)])
        selfValues == IF byKey.found
                      THEN [twig.values EXCEPT ![byKey.index + 1] =
                                LeafValue(key, value, ts)]
                      ELSE InsertAt(twig.values, byTs.index,
                                    LeafValue(key, value, ts))
    IN  [twig EXCEPT !.values = selfValues,
                     !.ts = MaxValueTs(selfValues, twig.ts)]

(* The entries of values that pass the filter, with the greatest ts;       *)
(* Iterator::max_by_key returns the last of several maxima.                *)
RECURSIVE LastMaxBy(_, _, _, _, _)
LastMaxBy(values, key, bound, i, best) ==
    IF i > Len(values) THEN best
    ELSE LET v == values[i]
             ok == KeyCmp(v.key, key) = 0 /\ v.ts <= bound
         IN  IF ok /\ (best = 0 \/ v.ts >= values[best].ts)
             THEN LastMaxBy(values, key, bound, i + 1, i)
             ELSE LastMaxBy(values, key, bound, i + 1, best)

NoLeaf == [found |-> FALSE]

Found(v) == [found |-> TRUE, value |-> v.value, ts |-> v.ts]

(* get_latest_leaf filters on the key alone: the bound excludes nothing.   *)
TwigGetLatestLeaf(twig, key) ==
    LET i == LastMaxBy(twig.values, key, MaxValueTs(twig.values, 0), 1, 0)
    IN  IF i = 0 THEN NoLeaf ELSE Found(twig.values[i])

TwigGetValueByTs(twig, key, timestamp) ==
    LET i == LastMaxBy(twig.values, key, timestamp, 1, 0)
    IN  IF i = 0 THEN NoLeaf ELSE Found(twig.values[i])

-----------------------------------------------------------------------------
(* What a failed unwrap, expect or index out of bounds leaves: no node.    *)

Panic == [kind |-> "Panic"]

(* Timestamp::ts of the child behind an Arc.                               *)
TsOf(h, c) == h[c].ts

(* max_child_ts: the fold of max, from 0, over every occupied slot of      *)
(* children.                                                               *)
MaxChildTs(h, n) ==
    LET ts == {TsOf(h, n.children[i]) :
                    i \in {j \in 1..Len(n.children) : n.children[j] # NullRef}}
    IN  IF ts = {} THEN 0 ELSE SetMax(ts)

(* update_ts_to_max_child_ts that leaves ts as it is.                      *)
UpdateTsKeep(h, n) == n

UpdateTsToMaxChildTs(h, n) == [n EXCEPT !.ts = MaxChildTs(h, n)]

(* update_ts without its comparison.                                      *)
UpdateTsAssign(h, n) == [n EXCEPT !.ts = MaxChildTs(h, n)]

UpdateTs(h, n) ==
    LET m == MaxChildTs(h, n)
    IN  IF n.ts < m THEN [n EXCEPT !.ts = m] ELSE n

UpdateIfNewer(n, newTs) == IF newTs > n.ts THEN [n EXCEPT !.ts = newTs] ELSE n

-----------------------------------------------------------------------------
(* The heap.  A node under construction (`let mut new_node = ...`) already *)
(* sits at the address it keeps once it is moved into its Arc.             *)

Alloc(h, node) == [heap |-> Append(h, node), ref |-> Len(h) + 1]

(* A write through &mut to the object at a.                                *)
Store(h, a, node) == [h EXCEPT ![a] = node]

(* What an operation returns: the heap and the node it returned, or no     *)
(* node when it panicked.                                                  *)
Done(h, a) == [heap |-> h, ref |-> a]

Fail(h) == [heap |-> h, ref |-> NullRef]

-----------------------------------------------------------------------------
(* VecArray<T, W>: a sequence of W slots, `none` marking an empty slot.    *)

VecFirstFreePos(storage, none) ==
    LET free == {i \in 0..(Len(storage) - 1) : storage[i + 1] = none}
    IN  IF free = {} THEN Len(storage) ELSE SetMin(free)

VecSet(storage, i, x) == [storage EXCEPT ![i + 1] = x]

VecGet(storage, i) == storage[i + 1]

VecErase(storage, i, none) == [storage EXCEPT ![i + 1] = none]

(* The occupied indexes at or after `from`, lowest first: VecArray::iter.  *)
VecNextUsed(storage, from, none) ==
    LET used == {i \in from..(Len(storage) - 1) : storage[i + 1] # none}
    IN  IF used = {} THEN NoIndex ELSE SetMin(used)

-----------------------------------------------------------------------------
(* FlatNode<P, N, WIDTH>.                                                  *)

FlatNew(prefix, width) ==
    [kind |-> "Flat", width |-> width, prefix |-> prefix, ts |-> 0,
     keys |-> [i \in 1..width |-> 0], children |-> [i \in 1..width |-> NullRef],
     num_children |-> 0]

(* find_pos: the LAST index i < num_children with key < keys[i] (the range *)
(* is searched in reverse), or num_children when there is none.            *)
FlatFindPos(n, key) ==
    LET hits == {i \in 0..(n.num_children - 1) : key < n.keys[i + 1]}
    IN  IF hits = {} THEN n.num_children ELSE SetMax(hits)

(* index: the first position among the used keys that holds key.           *)
FlatIndex(n, key) ==
    LET hits == {i \in 0..(Min(n.width, n.num_children) - 1) :
                    n.keys[i + 1] = key}
    IN  IF hits = {} THEN NoIndex ELSE SetMin(hits)

(* insert_child without the shift of the tail: slot idx is overwritten.    *)
FlatInsertChildNoShift(n, idx, key, c) ==
    IF n.kind = "Panic" \/ n.num_children >= n.width THEN Panic
    ELSE [n EXCEPT !.keys[idx + 1] = key, !.children[idx + 1] = c,
                   !.num_children = n.num_children + 1]

(* insert_child that writes over a slot of a full node instead of going    *)
(* out of bounds.                                                          *)
FlatInsertChildOverwrite(n, idx, key, c) ==
    IF n.kind = "Panic" THEN Panic
    ELSE [n EXCEPT !.keys[Min(idx, n.width - 1) + 1] = key,
                   !.children[Min(idx, n.width - 1) + 1] = c,
                   !.num_children = Min(n.num_children + 1, n.width)]

(* insert_child on *self = n: shift the tail right, write slot idx;        *)
(* writing past the last slot is an index out of bounds.                   *)
FlatInsertChild(n, idx, key, c) ==
    IF n.kind = "Panic" \/ n.num_children >= n.width THEN Panic
    ELSE [n EXCEPT
            !.keys = [i \in 1..n.width |->
                        IF i - 1 < idx THEN n.keys[i]
                        ELSE IF i - 1 = idx THEN key
                        ELSE IF i - 1 <= n.num_children THEN n.keys[i - 1]
                        ELSE n.keys[i]],
            !.children = [i \in 1..n.width |->
                        IF i - 1 < idx THEN n.children[i]
                        ELSE IF i - 1 = idx THEN c
                        ELSE IF i - 1 <= n.num_children THEN n.children[i - 1]
                        ELSE n.children[i]],
            !.num_children = n.num_children + 1]

(* clone that hands back the receiver itself.                              *)
FlatCloneAlias(h, self) == [heap |-> h, ref |-> self]

(* NodeTrait::clone: a new node holding the used slots of self.            *)
FlatClone(h, self) ==
    LET n == h[self]
    IN  Alloc(h,
            [kind |-> "Flat", width |-> n.width, prefix |-> n.prefix,
             ts |-> n.ts,
             keys |-> [i \in 1..n.width |->
                         IF i <= n.num_children THEN n.keys[i] ELSE 0],
             children |-> [i \in 1..n.width |->
                         IF i <= n.num_children THEN n.children[i]
                         ELSE NullRef],
             num_children |-> n.num_children])

FlatReplaceChild(h, self, key, c) ==
    LET cl == FlatClone(h, self)
        new == cl.heap[cl.ref]
        idx == FlatIndex(new, key)
    IN  IF idx = NoIndex THEN Fail(cl.heap)
        ELSE Done(Store(cl.heap, cl.ref,
                    UpdateTsToMaxChildTs(cl.heap,
                        [new EXCEPT !.keys[idx + 1] = key,
                                    !.children[idx + 1] = c])),
                  cl.ref)

(* add_child(key, node): add_child wraps the child in its Arc; here the    *)
(* caller has allocated it at c.                                           *)
FlatAddChild(h, self, key, c) ==
    LET cl == FlatClone(h, self)
        idx == FlatFindPos(h[self], key)
        new == FlatInsertChild(
                    UpdateIfNewer(cl.heap[cl.ref], TsOf(h, c)), idx, key, c)
    IN  IF new.kind = "Panic" THEN Fail(cl.heap)
        ELSE Done(Store(cl.heap, cl.ref, new), cl.ref)

FlatFindChild(n, key) ==
    LET idx == FlatIndex(n, key)
    IN  IF idx = NoIndex THEN NullRef ELSE n.children[idx + 1]

FlatDeleteChild(h, self, key) ==
    LET n == h[self]
        cl == FlatClone(h, self)
        new == cl.heap[cl.ref]
        idx == FlatIndex(n, key)
    IN  IF idx = NoIndex THEN Fail(cl.heap)
        ELSE Done(Store(cl.heap, cl.ref,
                    UpdateTsToMaxChildTs(cl.heap,
                        [new EXCEPT
                            !.keys = [i \in 1..n.width |->
                                IF i - 1 < idx THEN new.keys[i]
                                ELSE IF i < n.width THEN n.keys[i + 1]
                                ELSE 0],
                            !.children = [i \in 1..n.width |->
                                IF i - 1 < idx THEN new.children[i]
                                ELSE IF i < n.width THEN n.children[i + 1]
                                ELSE NullRef],
                            !.num_children = new.num_children - 1])),
                  cl.ref)

(* resize that copies no slot.                                             *)
FlatResizeEmpty(h, self, newWidth) ==
    Alloc(h, FlatNew(h[self].prefix, newWidth))

(* resize::<NEW_WIDTH>: copying a used slot past NEW_WIDTH is out of       *)
(* bounds.                                                                 *)
FlatResize(h, self, newWidth) ==
    LET n == h[self]
    IN  IF n.num_children > newWidth THEN Fail(h)
        ELSE Alloc(h, UpdateTs(h,
                [FlatNew(n.prefix, newWidth) EXCEPT
                    !.keys = [i \in 1..newWidth |->
                        IF i <= n.num_children THEN n.keys[i] ELSE 0],
                    !.children = [i \in 1..newWidth |->
                        IF i <= n.num_children THEN n.children[i]
                        ELSE NullRef],
                    !.ts = n.ts,
                    !.num_children = n.num_children]))

-----------------------------------------------------------------------------
(* Node48<P, N>.                                                           *)

N48New(prefix) ==
    [kind |-> "N48", prefix |-> prefix, ts |-> 0,
     child_ptr_indexes |-> [i \in 1..W256 |-> NoIndex],
     children |-> [i \in 1..W48 |-> NullRef], num_children |-> 0]

(* insert_child that does not count the child.                             *)
N48InsertChildNoCount(n, key, c) ==
    LET pos == VecFirstFreePos(n.children, NullRef)
    IN  IF n.kind = "Panic" \/ pos >= W48 THEN Panic
        ELSE [n EXCEPT
                !.child_ptr_indexes = VecSet(n.child_ptr_indexes, key, pos),
                !.children = VecSet(n.children, pos, c)]

(* insert_child on *self = n: VecArray::set past the last slot is out of   *)
(* bounds.                                                                 *)
N48InsertChild(n, key, c) ==
    LET pos == VecFirstFreePos(n.children, NullRef)
    IN  IF n.kind = "Panic" \/ pos >= W48 THEN Panic
        ELSE [n EXCEPT
                !.child_ptr_indexes = VecSet(n.child_ptr_indexes, key, pos),
                !.children = VecSet(n.children, pos, c),
                !.num_children = n.num_children + 1]

(* clone that hands back the receiver itself.                              *)
N48CloneAlias(h, self) == [heap |-> h, ref |-> self]

N48Clone(h, self) == Alloc(h, h[self])

N48ReplaceChild(h, self, key, c) ==
    LET cl == N48Clone(h, self)
        new == cl.heap[cl.ref]
        idx == VecGet(new.child_ptr_indexes, key)
    IN  IF idx = NoIndex THEN Fail(cl.heap)
        ELSE Done(Store(cl.heap, cl.ref,
                    UpdateTsToMaxChildTs(cl.heap,
                        [new EXCEPT !.children = VecSet(new.children, idx, c)])),
                  cl.ref)

N48AddChild(h, self, key, c) ==
    LET cl == N48Clone(h, self)
        new == N48InsertChild(
                    UpdateIfNewer(cl.heap[cl.ref], TsOf(h, c)), key, c)
    IN  IF new.kind = "Panic" THEN Fail(cl.heap)
        ELSE Done(Store(cl.heap, cl.ref, new), cl.ref)

(* delete_child that erases the index and leaves the child in its slot.    *)
N48DeleteChildKeepSlot(h, self, key) ==
    LET pos == VecGet(h[self].child_ptr_indexes, key)
        cl == N48Clone(h, self)
        new == cl.heap[cl.ref]
    IN  IF pos = NoIndex THEN Fail(h)
        ELSE Done(Store(cl.heap, cl.ref,
                    UpdateTsToMaxChildTs(cl.heap,
                        [new EXCEPT
                            !.child_ptr_indexes =
                                VecErase(new.child_ptr_indexes, key, NoIndex),
                            !.num_children = new.num_children - 1])),
                  cl.ref)

N48DeleteChild(h, self, key) ==
    LET pos == VecGet(h[self].child_ptr_indexes, key)
        cl == N48Clone(h, self)
        new == cl.heap[cl.ref]
    IN  IF pos = NoIndex THEN Fail(h)
        ELSE Done(Store(cl.heap, cl.ref,
                    UpdateTsToMaxChildTs(cl.heap,
                        [new EXCEPT
                            !.child_ptr_indexes =
                                VecErase(new.child_ptr_indexes, key, NoIndex),
                            !.children = VecErase(new.children, pos, NullRef),
                            !.num_children = new.num_children - 1])),
                  cl.ref)

(* find_child that takes the byte for the slot of children.                *)
N48FindChildBySlot(n, key) ==
    IF key < W48 THEN VecGet(n.children, key) ELSE NullRef

N48FindChild(n, key) ==
    LET idx == VecGet(n.child_ptr_indexes, key)
    IN  IF idx = NoIndex THEN NullRef ELSE VecGet(n.children, idx)

(* The loop of shrink: the mapped bytes in ascending order, each inserted  *)
(* at find_pos.                                                            *)
RECURSIVE N48ShrinkFrom(_, _, _)
N48ShrinkFrom(n, from, fnode) ==
    LET key == VecNextUsed(n.child_ptr_indexes, from, NoIndex)
    IN  IF key = NoIndex \/ fnode.kind = "Panic" THEN fnode
        ELSE N48ShrinkFrom(n, key + 1,
                FlatInsertChild(fnode, FlatFindPos(fnode, key), key,
                    VecGet(n.children, VecGet(n.child_ptr_indexes, key))))

N48Shrink(h, self, newWidth) ==
    LET fnode == N48ShrinkFrom(h[self], 0, FlatNew(h[self].prefix, newWidth))
    IN  IF fnode.kind = "Panic" THEN Fail(h) ELSE Alloc(h, UpdateTs(h, fnode))

-----------------------------------------------------------------------------
(* Node256<P, N>.                                                          *)

N256New(prefix) ==
    [kind |-> "N256", prefix |-> prefix, ts |-> 0,
     children |-> [i \in 1..W256 |-> NullRef], num_children |-> 0]

N256InsertChild(n, key, c) ==
    [n EXCEPT !.children = VecSet(n.children, key, c),
              !.num_children = n.num_children + 1]

RECURSIVE N48GrowFrom(_, _, _)
N48GrowFrom(n, from, n256) ==
    LET key == VecNextUsed(n.child_ptr_indexes, from, NoIndex)
    IN  IF key = NoIndex THEN n256
        ELSE N48GrowFrom(n, key + 1,
                N256InsertChild(n256, key,
                    VecGet(n.children, VecGet(n.child_ptr_indexes, key))))

N48Grow(h, self) ==
    Alloc(h, UpdateTs(h, N48GrowFrom(h[self], 0, N256New(h[self].prefix))))

RECURSIVE N256ShrinkFrom(_, _, _)
N256ShrinkFrom(n, from, indexed) ==
    LET key == VecNextUsed(n.children, from, NullRef)
    IN  IF key = NoIndex \/ indexed.kind = "Panic" THEN indexed
        ELSE N256ShrinkFrom(n, key + 1,
                N48InsertChild(indexed, key, VecGet(n.children, key)))

N256Shrink(h, self) ==
    LET indexed == N256ShrinkFrom(h[self], 0, N48New(h[self].prefix))
    IN  IF indexed.kind = "Panic" THEN Fail(h)
        ELSE Alloc(h, UpdateTs(h, indexed))

N256Clone(h, self) == Alloc(h, h[self])

N256ReplaceChild(h, self, key, c) ==
    LET cl == N256Clone(h, self)
        new == cl.heap[cl.ref]
    IN  Done(Store(cl.heap, cl.ref,
                UpdateTsToMaxChildTs(cl.heap,
                    [new EXCEPT !.children = VecSet(new.children, key, c)])),
             cl.ref)

N256AddChild(h, self, key, c) ==
    LET cl == N256Clone(h, self)
    IN  Done(Store(cl.heap, cl.ref,
                N256InsertChild(
                    UpdateIfNewer(cl.heap[cl.ref], TsOf(h, c)), key, c)),
             cl.ref)

N256FindChild(n, key) == VecGet(n.children, key)

(* delete_child that returns the clone as it is.                           *)
N256DeleteChildKeep(h, self, key) == N256Clone(h, self)

(* delete_child that counts one child less whether or not it removed one.  *)
N256DeleteChildCount(h, self, key) ==
    LET cl == N256Clone(h, self)
        new == cl.heap[cl.ref]
    IN  Done(Store(cl.heap, cl.ref,
                UpdateTsToMaxChildTs(cl.heap,
                    [new EXCEPT
                        !.children = VecErase(new.children, key, NullRef),
                        !.num_children = new.num_children - 1])),
             cl.ref)

N256DeleteChild(h, self, key) ==
    LET cl == N256Clone(h, self)
        new == cl.heap[cl.ref]
    IN  Done(Store(cl.heap, cl.ref,
                UpdateTsToMaxChildTs(cl.heap,
                    [new EXCEPT
                        !.children = VecErase(new.children, key, NullRef),
                        !.num_children =
                            IF VecGet(new.children, key) # NullRef
                            THEN new.num_children - 1
                            ELSE new.num_children])),
             cl.ref)

(* FlatNode::grow: the used slots, in slot order, inserted into a Node48.  *)
RECURSIVE FlatGrowFrom(_, _, _)
FlatGrowFrom(n, i, n48) ==
    IF i >= n.num_children \/ n48.kind = "Panic" THEN n48
    ELSE IF n.children[i + 1] = NullRef THEN FlatGrowFrom(n, i + 1, n48)
    ELSE FlatGrowFrom(n, i + 1,
            N48InsertChild(n48, n.keys[i + 1], n.children[i + 1]))

FlatGrow(h, self) ==
    LET n48 == FlatGrowFrom(h[self], 0, N48New(h[self].prefix))
    IN  IF n48.kind = "Panic" THEN Fail(h) ELSE Alloc(h, UpdateTs(h, n48))

-----------------------------------------------------------------------------
(* The node envelope: dispatch on the tier.                                *)

NodeFindChild(n, key) ==
    CASE n.kind = "Flat" -> FlatFindChild(n, key)
      [] n.kind = "N48" -> N48FindChild(n, key)
      [] n.kind = "N256" -> N256FindChild(n, key)
      [] OTHER -> NullRef

NodeAddChild(h, self, key, c) ==
    CASE h[self].kind = "Flat" -> FlatAddChild(h, self, key, c)
      [] h[self].kind = "N48" -> N48AddChild(h, self, key, c)
      [] OTHER -> N256AddChild(h, self, key, c)

NodeReplaceChild(h, self, key, c) ==
    CASE h[self].kind = "Flat" -> FlatReplaceChild(h, self, key, c)
      [] h[self].kind = "N48" -> N48ReplaceChild(h, self, key, c)
      [] OTHER -> N256ReplaceChild(h, self, key, c)

NodeDeleteChild(h, self, key) ==
    CASE h[self].kind = "Flat" -> FlatDeleteChild(h, self, key)
      [] h[self].kind = "N48" -> N48DeleteChild(h, self, key)
      [] OTHER -> N256DeleteChild(h, self, key)

(* NodeTrait::size: the capacity of the tier.                              *)
NodeSize(n) ==
    CASE n.kind = "Flat" -> n.width
      [] n.kind = "N48" -> W48
      [] n.kind = "N256" -> W256
      [] OTHER -> 0

(* The elements of a set of numbers, lowest first.                         *)
SortedSeq(S) ==
    LET below == [x \in S |-> Cardinality({y \in S : y < x})]
    IN  [k \in 1..Cardinality(S) |-> CHOOSE x \in S : below[x] = k - 1]

(* Node::iter collected: the (key, child) pairs in iteration order.  A     *)
(* FlatNode gives its first num_children slots, a Node48 its mapped bytes  *)
(* and a Node256 its occupied slots, lowest first; a twig has no children: *)
(* its iterator is empty.                                                  *)
NodePairs(h, ref) ==
    LET n == h[ref]
    IN  CASE n.kind = "Flat" ->
                [i \in 1..Min(n.num_children, n.width) |->
                    [key |-> n.keys[i], child |-> n.children[i]]]
          [] n.kind = "N48" ->
                LET ks == SortedSeq({b \in 0..(W256 - 1) :
                                VecGet(n.child_ptr_indexes, b) # NoIndex})
                IN  [i \in 1..Len(ks) |->
                        [key |-> ks[i],
                         child |-> VecGet(n.children,
                                        VecGet(n.child_ptr_indexes, ks[i]))]]
          [] n.kind = "N256" ->
                LET ks == SortedSeq({b \in 0..(W256 - 1) :
                                VecGet(n.children, b) # NullRef})
                IN  [i \in 1..Len(ks) |->
                        [key |-> ks[i], child |-> VecGet(n.children, ks[i])]]
          [] OTHER -> <<>>

(* A NodeIter is [ref, pos]: the node it iterates and how many items it    *)
(* has given out.                                                          *)
(* NodeIter::next: [some, key, child, pos] with pos the position after.    *)
NodeIterNext(h, it) ==
    IF it.pos < Len(NodePairs(h, it.ref))
    THEN [some |-> TRUE, key |-> NodePairs(h, it.ref)[it.pos + 1].key,
          child |-> NodePairs(h, it.ref)[it.pos + 1].child,
          pos |-> it.pos + 1]
    ELSE [some |-> FALSE]

-----------------------------------------------------------------------------
(* Tree operations.  Keys are fixed-width (FixedKey<N>), so no key is a    *)
(* proper prefix of another.  A child's prefix starts after its routing    *)
(* byte: the bytes of a key under a node are prefix, routing byte, rest.   *)

NewTwig(prefix, key, value, ts) ==
    TwigInsert("early", TwigNew(prefix), key, value, ts)

(* add_child, growing the tier first when it is full.                      *)
AddChildGrow(h, self, key, c) ==
    LET n == h[self]
    IN  IF n.num_children < NodeSize(n) THEN NodeAddChild(h, self, key, c)
        ELSE IF n.kind = "Flat" /\ n.width = W4
        THEN LET g == FlatResize(h, self, W16)
             IN  FlatAddChild(g.heap, g.ref, key, c)
        ELSE IF n.kind = "Flat"
        THEN LET g == FlatGrow(h, self)
             IN  N48AddChild(g.heap, g.ref, key, c)
        ELSE LET g == N48Grow(h, self)
             IN  N256AddChild(g.heap, g.ref, key, c)

RECURSIVE InsertRec(_, _, _, _, _, _)
InsertRec(h, ref, key, value, ts, depth) ==
    LET node == h[ref]
        p == LongestCommonPrefix(node.prefix, From(key, depth))
    IN  IF p < Len(node.prefix)
        THEN \* prefix split: a new Flat4 over the re-keyed node and a twig
             LET old == Alloc(h, [node EXCEPT
                                    !.prefix = From(node.prefix, p + 1)])
                 tw == Alloc(old.heap,
                            NewTwig(From(key, depth + p + 1), key, value, ts))
                 m0 == Alloc(tw.heap, FlatNew(SubSeq(node.prefix, 1, p), W4))
                 m1 == FlatAddChild(m0.heap, m0.ref, node.prefix[p + 1],
                                    old.ref)
             IN  FlatAddChild(m1.heap, m1.ref, key[depth + p + 1], tw.ref)
        ELSE IF node.kind = "Twig"
        THEN Alloc(h, TwigInsert("early", node, key, value, ts))
        ELSE LET b == key[depth + p + 1]
                 c == NodeFindChild(node, b)
             IN  IF c # NullRef
                 THEN LET r == InsertRec(h, c, key, value, ts, depth + p + 1)
                      IN  NodeReplaceChild(r.heap, ref, b, r.ref)
                 ELSE LET tw == Alloc(h, NewTwig(From(key, depth + p + 1),
                                                 key, value, ts))
                      IN  AddChildGrow(tw.heap, ref, b, tw.ref)

TreeInsert(h, r, key, value, ts) ==
    IF r = NullRef THEN Alloc(h, NewTwig(key, key, value, ts))
    ELSE InsertRec(h, r, key, value, ts, 0)

(* After delete_child: shrink to the next smaller tier when the children   *)
(* fit it.                                                                 *)
ShrinkIfNeeded(h, a) ==
    LET n == h[a]
    IN  IF n.kind = "N256" /\ n.num_children <= W48 THEN N256Shrink(h, a)
        ELSE IF n.kind = "N48" /\ n.num_children <= W16
        THEN N48Shrink(h, a, W16)
        ELSE IF n.kind = "Flat" /\ n.width = W16 /\ n.num_children <= W4
        THEN FlatResize(h, a, W4)
        ELSE Done(h, a)

Unchanged(h, ref) == [heap |-> h, ref |-> ref, changed |-> FALSE]

Changed(r) == [heap |-> r.heap, ref |-> r.ref, changed |-> TRUE]

(* [heap, ref, changed]: ref is NullRef when the node at ref is gone.      *)
RECURSIVE RemoveRec(_, _, _, _)
RemoveRec(h, ref, key, depth) ==
    LET node == h[ref]
        p == LongestCommonPrefix(node.prefix, From(key, depth))
    IN  IF p < Len(node.prefix) THEN Unchanged(h, ref)
        ELSE IF node.kind = "Twig" THEN Changed(Fail(h))
        ELSE LET b == key[depth + p + 1]
                 c == NodeFindChild(node, b)
                 r == RemoveRec(h, c, key, depth + p + 1)
             IN  IF c = NullRef THEN Unchanged(h, ref)
                 ELSE IF ~r.changed THEN Unchanged(h, ref)
                 ELSE IF r.ref # NullRef
                 THEN Changed(NodeReplaceChild(r.heap, ref, b, r.ref))
                 ELSE IF node.num_children >= 3
                 THEN LET d == NodeDeleteChild(h, ref, b)
                      IN  Changed(ShrinkIfNeeded(d.heap, d.ref))
                 ELSE IF node.num_children = 2
                 THEN \* collapse into the sole remaining child
                      LET d == NodeDeleteChild(h, ref, b)
                          sole == NodePairs(d.heap, d.ref)[1]
                          cn == d.heap[sole.child]
                      IN  Changed(Alloc(d.heap, [cn EXCEPT !.prefix =
                              node.prefix \o <<sole.key>> \o cn.prefix]))
                 ELSE Changed(Fail(h))

TreeRemove(h, r, key) ==
    IF r = NullRef THEN Unchanged(h, r) ELSE RemoveRec(h, r, key, 0)

(* get(key, ts): ts = 0 asks for the latest version.                       *)
RECURSIVE GetRec(_, _, _, _, _)
GetRec(h, ref, key, ts, depth) ==
    LET node == h[ref]
        p == LongestCommonPrefix(node.prefix, From(key, depth))
        d == depth + Len(node.prefix)
    IN  IF p < Len(node.prefix) THEN NoLeaf
        ELSE IF node.kind = "Twig"
        THEN IF ts > 0 THEN TwigGetValueByTs(node, key, ts)
             ELSE TwigGetLatestLeaf(node, key)
        ELSE IF d >= Len(key) \/ NodeFindChild(node, key[d + 1]) = NullRef
        THEN NoLeaf
        ELSE GetRec(h, NodeFindChild(node, key[d + 1]), key, ts, d + 1)

TreeGet(h, r, key, ts) ==
    IF r = NullRef THEN NoLeaf ELSE GetRec(h, r, key, ts, 0)

-----------------------------------------------------------------------------
(* Iter / IterState.                                                       *)

(* Iter::new(None) is std::iter::empty().                                  *)
IterEmpty == [node_iter |-> <<>>, leafs |-> <<>>]

(* Iter::new(Some(root)) is IterState::new(root): the root's iterator on   *)
(* the stack, no leaf.                                                     *)
IterNew(h, r) ==
    IF r = NullRef THEN IterEmpty
    ELSE [node_iter |-> <<[ref |-> r, pos |-> 0]>>, leafs |-> <<>>]

(* The leaves a twig pushes: TwigNode of node.rs keeps the key in each     *)
(* LeafValue, and every value of a tree's twig carries the twig's key.     *)
(* The 'outer loop of IterState::next: until a twig is met or the stack    *)
(* is empty.                                                               *)
RECURSIVE IterAdvance(_, _)
IterAdvance(h, st) ==
    IF Len(st.node_iter) = 0 THEN st
    ELSE LET top == Len(st.node_iter)
             e == NodeIterNext(h, st.node_iter[top])
             moved == [st EXCEPT !.node_iter[top].pos = e.pos]
         IN  IF ~e.some
             THEN IterAdvance(h,
                    [st EXCEPT !.node_iter = SubSeq(st.node_iter, 1, top - 1)])
             ELSE IF h[e.child].kind = "Twig"
             THEN [moved EXCEPT !.leafs = st.leafs \o
                    [i \in 1..Len(h[e.child].values) |->
                        [key |-> h[e.child].values[i].key,
                         value |-> h[e.child].values[i].value,
                         ts |-> h[e.child].values[i].ts]]]
             ELSE IterAdvance(h,
                    [moved EXCEPT !.node_iter =
                        Append(moved.node_iter, [ref |-> e.child, pos |-> 0])])

(* A next() that hands out the front leaf and leaves it in the queue.       *)
IterNextKeep(h, st) ==
    LET adv == IterAdvance(h, st)
    IN  IF Len(adv.leafs) = 0 THEN [st |-> adv, some |-> FALSE]
        ELSE [st |-> adv, some |-> TRUE, item |-> Head(adv.leafs)]

(* IterState::next: [st, some, item].                                      *)
IterNext(h, st) ==
    LET adv == IterAdvance(h, st)
    IN  IF Len(adv.leafs) = 0 THEN [st |-> adv, some |-> FALSE]
        ELSE [st |-> [adv EXCEPT !.leafs = Tail(adv.leafs)], some |-> TRUE,
              item |-> Head(adv.leafs)]

(* iter().collect(): every item up to the first None.                      *)
RECURSIVE IterCollectFrom(_, _, _)
IterCollectFrom(h, st, acc) ==
    LET e == IterNext(h, st)
    IN  IF ~e.some THEN acc ELSE IterCollectFrom(h, e.st, Append(acc, e.item))

IterCollect(h, r) == IterCollectFrom(h, IterNew(h, r), <<>>)

-----------------------------------------------------------------------------
(* Dropping an Arc frees what no live root reaches.  The heap is kept in   *)
(* the depth-first order of the live roots, so that a state does not       *)
(* depend on the addresses the allocator happened to hand out.             *)

(* The nodes under a, a first, in depth-first order of the slots.          *)
RECURSIVE Dfs(_, _)
RECURSIVE DfsSlots(_, _, _, _)
Dfs(h, a) ==
    IF a = NullRef THEN <<>>
    ELSE IF h[a].kind = "Twig" THEN <<a>>
    ELSE <<a>> \o DfsSlots(h, h[a].children, 1, Len(h[a].children))

(* The same for the children in the slots lo..hi, one half after the       *)
(* other.                                                                  *)
DfsSlots(h, cs, lo, hi) ==
    IF lo > hi THEN <<>>
    ELSE IF lo = hi THEN Dfs(h, cs[lo])
    ELSE DfsSlots(h, cs, lo, (lo + hi) \div 2)
            \o DfsSlots(h, cs, ((lo + hi) \div 2) + 1, hi)

(* The nodes r1 and r2 reach, in depth-first order, each once.             *)
LiveOrder(h, r1, r2) ==
    LET nodes == Dfs(h, r1) \o Dfs(h, r2)
        first == {k \in 1..Len(nodes) :
                    \A j \in 1..(k - 1) : nodes[j] # nodes[k]}
    IN  IF r2 = NullRef THEN Dfs(h, r1)
        ELSE [k \in 1..Cardinality(first) |-> nodes[SortedSeq(first)[k]]]

NewRef(order, a) ==
    IF a = NullRef THEN NullRef ELSE CHOOSE i \in 1..Len(order) : order[i] = a

Relocate(order, n) ==
    IF n.kind = "Twig" THEN n
    ELSE [n EXCEPT !.children =
            [i \in 1..Len(n.children) |-> NewRef(order, n.children[i])]]

Compact(h, order) == [i \in 1..Len(order) |-> Relocate(order, h[order[i]])]

-----------------------------------------------------------------------------
(* What a root holds, seen from outside.                                   *)

KeySpace == {<<1, 1>>, <<1, 2>>, <<1, 3>>, <<2, 1>>, <<3, 3>>}

Timestamps == 0..MaxTs

(* The entries get(k, 0) reads from the root r.                            *)
Content(h, r) ==
    {LeafValue(k, TreeGet(h, r, k, 0).value, TreeGet(h, r, k, 0).ts) :
        k \in {x \in KeySpace : TreeGet(h, r, x, 0).found}}

(* The tree under a, every reference replaced by the object it points to.  *)
RECURSIVE Unfold(_, _)
Unfold(h, a) ==
    IF a = NullRef THEN [kind |-> "None"]
    ELSE IF h[a].kind = "Twig" THEN h[a]
    ELSE [h[a] EXCEPT !.children =
            [i \in 1..Len(h[a].children) |-> Unfold(h, h[a].children[i])]]

-----------------------------------------------------------------------------
(* The tree as a state machine: a single writer.                           *)

NoSnap == [open |-> FALSE, root |-> NullRef]

NoRange == [kind |-> "None"]

Init ==
    /\ heap = <<>>
    /\ root = NullRef
    /\ log = {}
    /\ nd = [ref |-> NullRef, twig |-> TwigNew(<<>>)]
    /\ snap = NoSnap
    /\ rd = IterEmpty
    /\ rg = NoRange

(* The writer installs the root r.ref of r.heap; the old root is dropped   *)
(* unless the snapshot pins it.  The reader's references move with the     *)
(* nodes they point to.  pre and new record, for an open snapshot, the     *)
(* entries before an insert of a new key and the entry inserted.           *)
Install(r, pre, new) ==
    LET order == LiveOrder(r.heap, r.ref, snap.root)
    IN  /\ heap' = Compact(r.heap, order)
        /\ root' = NewRef(order, r.ref)
        /\ snap' = IF snap.open
                   THEN [snap EXCEPT !.root = NewRef(order, snap.root),
                                     !.pre = pre, !.new = new]
                   ELSE snap
        /\ rd' = [rd EXCEPT !.node_iter =
                    [i \in 1..Len(rd.node_iter) |->
                        [rd.node_iter[i] EXCEPT
                            !.ref = NewRef(order, rd.node_iter[i].ref)]]]

DoInsert(k, v, t) ==
    LET isNew == snap.open /\ ~TreeGet(heap, root, k, 0).found
    IN  /\ Install(TreeInsert(heap, root, k, v, t),
                   IF isNew THEN Content(heap, root) ELSE {},
                   IF isNew THEN {LeafValue(k, v, t)} ELSE {})
        /\ log' = log \cup {LeafValue(k, v, t)}
        /\ UNCHANGED <<nd, rg>>

Insert(k, v, t) ==
    /\ rg = NoRange
    /\ Cardinality(log) < MaxEntries
    /\ DoInsert(k, v, t)

Remove(k) ==
    /\ rg = NoRange
    /\ Install(TreeRemove(heap, root, k), {}, {})
    /\ log' = {e \in log : e.key # k}
    /\ UNCHANGED <<nd, rg>>

Next ==
    \/ \E k \in KeySpace, v \in Values, t \in Timestamps : Insert(k, v, t)
    \/ \E k \in KeySpace : Remove(k)

Spec == Init /\ [][Next]_vars

-----------------------------------------------------------------------------
(* Properties of the tree.                                                 *)

(* C1: time-travel reads.  When k was inserted several times with          *)
(* different timestamps, get(k, T) with T > 0 returns the inserted version *)
(* of k with the greatest ts <= T, and nothing if there is none.           *)
C1_TimeTravel ==
    \A k \in KeySpace, T \in 1..MaxTs :
        (\A e, f \in {x \in log : x.key = k} : e.ts = f.ts => e = f) =>
            TreeGet(heap, root, k, T) =
                LET c == {e \in log : e.key = k /\ e.ts <= T}
                IN  IF c = {} THEN NoLeaf
                    ELSE Found(CHOOSE e \in c : \A f \in c : f.ts <= e.ts)

(* C2: ordered iteration.  When every key was inserted at most once,       *)
(* in whatever order, iter() yields the keys in strictly ascending         *)
(* lexicographic order.                                                    *)
C2_OrderedIteration ==
    (\A k \in KeySpace : Cardinality({e \in log : e.key = k}) <= 1) =>
        \A i \in 1..(Len(IterCollect(heap, root)) - 1) :
            KeyCmp(IterCollect(heap, root)[i].key,
                   IterCollect(heap, root)[i + 1].key) = -1

-----------------------------------------------------------------------------
(* A snapshot reader beside the writer.  The snapshot pins the root it was *)
(* opened on; the reader iterates it, one next() at a time, while the      *)
(* writer goes on.                                                         *)

SnapKeys == {<<1, 1>>, <<1, 2>>, <<2, 1>>}

SnapshotOpen ==
    /\ ~snap.open
    /\ rg = NoRange
    /\ snap' = [open |-> TRUE, root |-> root,
                view |-> Unfold(heap, root),
                gets |-> [k \in KeySpace |-> TreeGet(heap, root, k, 0)],
                content |-> Content(heap, root),
                out |-> <<>>, done |-> FALSE, pre |-> {}, new |-> {}]
    /\ rd' = IterNew(heap, root)
    /\ UNCHANGED <<heap, root, log, nd, rg>>

(* One next() of the reader's iterator.                                    *)
ReaderNext ==
    /\ snap.open
    /\ ~snap.done
    /\ LET e == IterNext(heap, rd)
       IN  /\ rd' = e.st
           /\ snap' = IF e.some
                      THEN [snap EXCEPT !.out = Append(snap.out, e.item)]
                      ELSE [snap EXCEPT !.done = TRUE]
    /\ UNCHANGED <<heap, root, log, nd, rg>>

(* close_reader: the pinned root is dropped.                               *)
SnapshotClose ==
    /\ snap.open
    /\ LET order == LiveOrder(heap, root, NullRef)
       IN  /\ heap' = Compact(heap, order)
           /\ root' = NewRef(order, root)
    /\ snap' = NoSnap
    /\ rd' = IterEmpty
    /\ UNCHANGED <<log, nd, rg>>

NextSnap ==
    \/ \E k \in SnapKeys, v \in Values : Insert(k, v, 0)
    \/ \E k \in SnapKeys : Remove(k)
    \/ SnapshotOpen
    \/ ReaderNext
    \/ SnapshotClose

SpecSnap == Init /\ [][NextSnap]_vars

(* C4: persistence of reads.  Whatever the writer inserts after a root R   *)
(* was taken, get(k, 0) on R returns what it returned before, for every    *)
(* key k, and every node reachable from R is as it was.                    *)
C4_Persistence ==
    snap.open =>
        /\ \A k \in KeySpace : TreeGet(heap, snap.root, k, 0) = snap.gets[k]
        /\ Unfold(heap, snap.root) = snap.view

(* An insert of a new key under an interior node of the pinned root: the   *)
(* new root shares a node with the pinned one and reads the new key.       *)
C4_Witness ==
    /\ snap.open
    /\ snap.new # {}
    /\ snap.root # NullRef
    /\ heap[snap.root].kind = "Flat"
    /\ root # snap.root
    /\ Len(heap) < Len(LiveOrder(heap, root, NullRef))
                    + Len(LiveOrder(heap, snap.root, NullRef))
    /\ \E e \in snap.new :
            /\ TreeGet(heap, root, e.key, 0) = Found(e)
            /\ ~TreeGet(heap, snap.root, e.key, 0).found

(* C5: snapshot isolation.  A reader opened on R1 yields entries that were *)
(* in the tree when it was opened, each once, and all of them by the time   *)
(* it ends, whatever the writer does meanwhile; after an insert of a new   *)
(* key, iterating the new root yields the entries before it plus the new   *)
(* one.                                                                    *)
C5_SnapshotIsolation ==
    snap.open =>
        /\ {snap.out[i] : i \in 1..Len(snap.out)} \subseteq snap.content
        /\ Cardinality({snap.out[i] : i \in 1..Len(snap.out)}) = Len(snap.out)
        /\ snap.done => {snap.out[i] : i \in 1..Len(snap.out)} = snap.content
        /\ snap.new # {} =>
                {IterCollect(heap, root)[i] :
                    i \in 1..Len(IterCollect(heap, root))}
                    = snap.pre \cup snap.new

-----------------------------------------------------------------------------
(* One interior node and one twig, driven through their own operations.    *)
(* Children are twigs holding one value; add_child is called for a byte    *)
(* with no child, replace_child for a byte with one (the NodeTrait         *)
(* contract).                                                              *)

NodeBytes == {0, 1, 2}

TwigKeys == {<<1>>, <<2>>}

InitNode ==
    /\ heap = <<FlatNew(<<>>, W4)>>
    /\ nd = [ref |-> 1, twig |-> TwigNew(<<>>)]
    /\ root = NullRef
    /\ log = {}
    /\ snap = NoSnap
    /\ rd = IterEmpty
    /\ rg = NoRange

(* The node returned takes the place of the receiver, which is dropped; an *)
(* operation that panics returns nothing.                                  *)
NdInstall(r) ==
    /\ r.ref # NullRef
    /\ LET order == LiveOrder(r.heap, r.ref, NullRef)
       IN  /\ heap' = Compact(r.heap, order)
           /\ nd' = [nd EXCEPT !.ref = NewRef(order, r.ref)]
    /\ UNCHANGED <<root, log, snap, rd, rg>>

NdAddChild(b, t) ==
    /\ NodeFindChild(heap[nd.ref], b) = NullRef
    /\ LET c == Alloc(heap, NewTwig(<<>>, <<b>>, "u", t))
       IN  NdInstall(NodeAddChild(c.heap, nd.ref, b, c.ref))

NdReplaceChild(b, t) ==
    /\ NodeFindChild(heap[nd.ref], b) # NullRef
    /\ LET c == Alloc(heap, NewTwig(<<>>, <<b>>, "u", t))
       IN  NdInstall(NodeReplaceChild(c.heap, nd.ref, b, c.ref))

NdDeleteChild(b) == NdInstall(NodeDeleteChild(heap, nd.ref, b))

NdGrow ==
    /\ heap[nd.ref].kind \in {"Flat", "N48"}
    /\ NdInstall(IF heap[nd.ref].kind = "Flat" THEN FlatGrow(heap, nd.ref)
                 ELSE N48Grow(heap, nd.ref))

NdShrink(w) ==
    /\ heap[nd.ref].kind \in {"N48", "N256"}
    /\ NdInstall(IF heap[nd.ref].kind = "N48" THEN N48Shrink(heap, nd.ref, w)
                 ELSE N256Shrink(heap, nd.ref))

NdResize(w) ==
    /\ heap[nd.ref].kind = "Flat"
    /\ NdInstall(FlatResize(heap, nd.ref, w))

TwInsert(k, t) ==
    /\ Len(nd.twig.values) < MaxTwigValues
    /\ nd' = [nd EXCEPT !.twig = TwigInsert("early", nd.twig, k, "u", t)]
    /\ UNCHANGED <<heap, root, log, snap, rd, rg>>

NextNode ==
    \/ \E b \in NodeBytes, t \in Timestamps : NdAddChild(b, t)
    \/ \E b \in NodeBytes, t \in Timestamps : NdReplaceChild(b, t)
    \/ \E b \in NodeBytes : NdDeleteChild(b)
    \/ NdGrow
    \/ \E w \in {W4, W16} : NdShrink(w)
    \/ \E w \in {W4, W16} : NdResize(w)
    \/ \E k \in TwigKeys, t \in Timestamps : TwInsert(k, t)

SpecNode == InitNode /\ [][NextNode]_vars

(* The timestamps of the children a node gives out.                        *)
ChildTs(h, ref) == {TsOf(h, NodePairs(h, ref)[i].child) :
                        i \in 1..Len(NodePairs(h, ref))}

MaxOrZero(S) == IF S = {} THEN 0 ELSE SetMax(S)

(* C6: timestamp ancestry.  The node's ts is the greatest ts of its        *)
(* children, 0 when it has none; a twig's ts is the greatest ts of its     *)
(* values, 0 when it is empty.                                             *)
C6_TimestampAncestry ==
    /\ heap[nd.ref].ts = MaxOrZero(ChildTs(heap, nd.ref))
    /\ nd.twig.ts = MaxOrZero({nd.twig.values[j].ts :
                                j \in 1..Len(nd.twig.values)})
    /\ \A i \in 1..Len(heap) :
            heap[i].kind = "Twig" =>
                heap[i].ts = MaxOrZero({heap[i].values[j].ts :
                                            j \in 1..Len(heap[i].values)})

(* A Node48 left with one child of ts 0 in its second slot (the child of   *)
(* the first slot was deleted), and a twig of two values whose greatest ts *)
(* is not the last inserted.                                               *)
C6_Witness ==
    /\ heap[nd.ref].kind = "N48"
    /\ heap[nd.ref].num_children = 1
    /\ heap[nd.ref].children[1] = NullRef
    /\ heap[nd.ref].children[2] # NullRef
    /\ heap[nd.ref].ts = 0
    /\ Len(nd.twig.values) = 2
    /\ nd.twig.ts = MaxTs
    /\ nd.twig.values[1].ts = MaxTs

-----------------------------------------------------------------------------
(* One node of the tree taken through the tiers: the keys <<1, b>> are     *)
(* inserted for b = 0, 1, 2, ... up to MaxFan of them, and removed from    *)
(* the high end, or from the low end once all are in; the key <<2, 0>>     *)
(* comes and goes beside them.                                             *)

TierBytes == {e.key[2] : e \in {x \in log : x.key[1] = 1}}

TierInsert ==
    LET b == IF TierBytes = {} THEN 0 ELSE SetMax(TierBytes) + 1
    IN  /\ b < MaxFan
        /\ TierBytes # {} => SetMin(TierBytes) = 0
        /\ DoInsert(<<1, b>>, "u", 0)

TierRemoveHigh ==
    /\ TierBytes # {}
    /\ Remove(<<1, SetMax(TierBytes)>>)

TierRemoveLow ==
    /\ TierBytes # {}
    /\ SetMax(TierBytes) = MaxFan - 1 \/ SetMin(TierBytes) > 0
    /\ Remove(<<1, SetMin(TierBytes)>>)

TierInsertOther ==
    /\ \A e \in log : e.key # <<2, 0>>
    /\ DoInsert(<<2, 0>>, "u", 0)

TierRemoveOther ==
    /\ \E e \in log : e.key = <<2, 0>>
    /\ Remove(<<2, 0>>)

NextTier ==
    \/ TierInsert
    \/ TierRemoveHigh
    \/ TierRemoveLow
    \/ TierInsertOther
    \/ TierRemoveOther

SpecTier == Init /\ [][NextTier]_vars

(* C7: tier occupancy.  After any inserts and removes every interior node  *)
(* holds a number of children in the interval of its tier; growing and     *)
(* shrinking lose no child: the node gives out as many children as it      *)
(* counts, and every key inserted and not removed is read back.            *)
C7_TierOccupancy ==
    /\ \A i \in 1..Len(heap) :
            /\ CASE heap[i].kind = "Flat" /\ heap[i].width = W4 ->
                        \/ heap[i].num_children \in 2..W4
                        \/ i = root /\ heap[i].num_children = 1
                 [] heap[i].kind = "Flat" /\ heap[i].width = W16 ->
                        heap[i].num_children \in (W4 + 1)..W16
                 [] heap[i].kind = "N48" ->
                        heap[i].num_children \in (W16 + 1)..W48
                 [] heap[i].kind = "N256" ->
                        heap[i].num_children \in (W48 + 1)..W256
                 [] OTHER -> heap[i].kind = "Twig"
            /\ heap[i].kind # "Twig" =>
                    Len(NodePairs(heap, i)) = heap[i].num_children
    /\ \A e \in log : TreeGet(heap, root, e.key, 0) = Found(e)

(* A Flat16 of five children whose bytes are the highest, under the root:  *)
(* the node grew to a Node256 and shrank back tier by tier.                *)
C7_Witness ==
    /\ Cardinality(TierBytes) = 5
    /\ SetMin(TierBytes) = MaxFan - 5
    /\ \E e \in log : e.key = <<2, 0>>
    /\ \E i \in 1..Len(heap) :
            /\ i # root
            /\ heap[i].kind = "Flat"
            /\ heap[i].width = W16
            /\ heap[i].num_children = 5

-----------------------------------------------------------------------------
(* range(end_bound): a Range over the tree's iterator.  The tree is        *)
(* borrowed while the Range lives: the writer waits.                       *)

RangeKeys == {<<1, 1>>, <<1, 2>>, <<1, 3>>, <<2, 1>>}

None == [some |-> FALSE]

(* RangeResult.                                                            *)
Continue(it) == [kind |-> "Continue", it |-> it]

Yield(it, res) == [kind |-> "Yield", it |-> it, res |-> res]

(* <RangeIterator as RangeIteratorTrait>::next, the match on an Excluded   *)
(* bound yielding the item.                                                *)
RangeIteratorNextThrough(h, it, bound) ==
    LET e == IterNext(h, it)
    IN  IF ~e.some THEN Yield(e.st, None)
        ELSE IF bound.kind = "Included" /\ e.item.key = bound.k
        THEN Continue(e.st)
        ELSE Yield(e.st, [some |-> TRUE, item |-> e.item])

(* The match of RangeIterator::next on the item the iterator gave.         *)
RangeIteratorMatch(e, bound) ==
    IF ~e.some THEN Yield(e.st, None)
    ELSE IF bound.kind = "Included" /\ e.item.key = bound.k
    THEN Continue(e.st)
    ELSE IF bound.kind = "Excluded" /\ e.item.key = bound.k
    THEN Yield(e.st, None)
    ELSE Yield(e.st, [some |-> TRUE, item |-> e.item])

(* <RangeIterator as RangeIteratorTrait>::next.                            *)
RangeIteratorNext(h, it, bound) == RangeIteratorMatch(IterNext(h, it), bound)

(* <EmptyRangeIterator as RangeIteratorTrait>::next.                       *)
EmptyRangeIteratorNext(it) == Yield(it, None)

(* The Continue arm of Range::next: res is what the call of self.next()    *)
(* returned; inner becomes the EmptyRangeIterator after it.                *)
RangeContinue(res) == [inner |-> "Empty", it |-> res.it, res |-> res.res]

(* <Range as Iterator>::next on a Range whose inner is `inner`:            *)
(* [inner, it, res].  RangeMatch is its match on what inner.next() gave.   *)
RECURSIVE RangeNext(_, _, _, _)
RangeMatch(h, inner, bound, r) ==
    IF r.kind = "Continue"
    THEN RangeContinue(RangeNext(h, inner, r.it, bound))
    ELSE [inner |-> inner, it |-> r.it, res |-> r.res]

RangeNext(h, inner, it, bound) ==
    RangeMatch(h, inner, bound,
               IF inner = "Empty" THEN EmptyRangeIteratorNext(it)
               ELSE RangeIteratorNext(h, it, bound))

RangeEmpty(bound) ==
    [kind |-> bound.kind, k |-> bound.k, inner |-> "Empty", it |-> IterEmpty,
     base |-> <<>>, out |-> <<>>]

RangeForIter(h, r, bound) ==
    [kind |-> bound.kind, k |-> bound.k, inner |-> "Range",
     it |-> IterNew(h, r), base |-> IterCollect(h, r), out |-> <<>>]

(* Tree::range.                                                            *)
RangeOpen(bound) ==
    /\ rg = NoRange
    /\ rg' = IF root = NullRef THEN RangeEmpty(bound)
             ELSE RangeForIter(heap, root, bound)
    /\ UNCHANGED <<heap, root, log, nd, snap, rd>>

(* The Range after a next() that returned r.                               *)
RangeAfter(g, r) ==
    [g EXCEPT !.inner = r.inner, !.it = r.it, !.out = Append(g.out, r.res)]

(* One next() of the Range; rg.out keeps what each call returned.          *)
RangeStep ==
    /\ rg # NoRange
    /\ Len(rg.out) <= Len(rg.base)
    /\ rg' = RangeAfter(rg, RangeNext(heap, rg.inner, rg.it,
                                      [kind |-> rg.kind, k |-> rg.k]))
    /\ UNCHANGED <<heap, root, log, nd, snap, rd>>

RangeDrop ==
    /\ rg # NoRange
    /\ rg' = NoRange
    /\ UNCHANGED <<heap, root, log, nd, snap, rd>>

NextRange ==
    \/ \E k \in RangeKeys : Insert(k, "u", 0)
    \/ \E k \in RangeKeys : Remove(k)
    \/ RangeOpen([kind |-> "Unbounded", k |-> <<>>])
    \/ \E c \in {"Included", "Excluded"}, k \in RangeKeys :
            RangeOpen([kind |-> c, k |-> k])
    \/ RangeStep
    \/ RangeDrop

SpecRange == Init /\ [][NextRange]_vars

(* The index of the first None in out, Len(out) + 1 when there is none.    *)
FirstNone(out) ==
    SetMin({i \in 1..Len(out) : ~out[i].some} \cup {Len(out) + 1})

(* The items next() returned before its first None.                        *)
Yielded(out) == [i \in 1..(FirstNone(out) - 1) |-> out[i].item]

(* The index in base of the first item whose key is k, Len(base) + 1 when  *)
(* no item has it.                                                         *)
FirstMatch(base, k) ==
    SetMin({i \in 1..Len(base) : base[i].key = k} \cup {Len(base) + 1})

(* What the range is to yield: s while it runs, all of s once it ended.    *)
YieldsExactly(out, s) ==
    /\ Len(Yielded(out)) <= Len(s)
    /\ Yielded(out) = SubSeq(s, 1, Len(Yielded(out)))
    /\ FirstNone(out) <= Len(out) => Yielded(out) = s

(* C8: end bound Included(K).  The range yields the items of iter() in     *)
(* order up to and including the first item whose key is K, and then ends. *)
C8_RangeIncluded ==
    rg # NoRange /\ rg.kind = "Included" =>
        YieldsExactly(rg.out,
            SubSeq(rg.base, 1, Min(FirstMatch(rg.base, rg.k), Len(rg.base))))

(* C9: end bound Excluded(K).  Up to its first None the range yields       *)
(* exactly the items of iter() before the first item whose key is K, and   *)
(* not that item.                                                          *)
C9_RangeExcluded ==
    rg # NoRange /\ rg.kind = "Excluded" =>
        YieldsExactly(rg.out,
            SubSeq(rg.base, 1, FirstMatch(rg.base, rg.k) - 1))

(* An Excluded range that met its bound after two items, with an item left *)
(* behind the match.                                                       *)
C9_Witness ==
    /\ rg # NoRange
    /\ rg.kind = "Excluded"
    /\ FirstMatch(rg.base, rg.k) = 3
    /\ Len(rg.base) = 3
    /\ Len(rg.out) = 3
    /\ rg.out[1].some /\ rg.out[2].some /\ ~rg.out[3].some

(* C10: the upper bound ends the range.  With an end bound Included(K) or  *)
(* Excluded(K), stored or not, no item the range yields has a key greater  *)
(* than K.                                                                 *)
C10_RangeUpperBound ==
    rg # NoRange /\ rg.kind \in {"Included", "Excluded"} =>
        \A i \in 1..Len(rg.out) :
            rg.out[i].some => KeyCmp(rg.out[i].item.key, rg.k) # 1

-----------------------------------------------------------------------------
(* One node under the operations of NodeTrait, the receiver of the last    *)
(* operation kept beside the node it returned (the caller still holds      *)
(* &self).  nd.ref is the node in hand, nd.self the receiver of the last   *)
(* operation, nd.before the receiver as it was when the operation was      *)
(* called, nd.panicked whether the operation panicked (the node in hand is *)
(* then still the receiver), nd.child the child handed to it.              *)

OpBytes == {0, 1, 2, 3}

InitOps ==
    /\ heap = <<FlatNew(<<7>>, W4)>>
    /\ nd = [ref |-> 1, self |-> NullRef, op |-> "new", key |-> 0,
             child |-> NullRef, panicked |-> FALSE,
             before |-> FlatNew(<<7>>, W4)]
    /\ root = NullRef
    /\ log = {}
    /\ snap = NoSnap
    /\ rd = IterEmpty
    /\ rg = NoRange

(* The operation op(key) called on nd.ref returned r (r.ref = NullRef: it  *)
(* panicked); c is the child handed to it.  What neither the node in hand  *)
(* nor the receiver reaches is dropped.                                    *)
OpInstall(r, op, key, c) ==
    LET keep == IF r.ref = NullRef THEN nd.ref ELSE r.ref
        order == LiveOrder(r.heap, keep, nd.ref)
    IN  /\ heap' = Compact(r.heap, order)
        /\ nd' = [ref |-> NewRef(order, keep), self |-> NewRef(order, nd.ref),
                  op |-> op, key |-> key,
                  child |-> IF r.ref = NullRef THEN NullRef
                            ELSE NewRef(order, c),
                  panicked |-> r.ref = NullRef,
                  before |-> Relocate(order, heap[nd.ref])]
        /\ UNCHANGED <<root, log, snap, rd, rg>>

IsFull(n) == n.kind = "Flat" /\ n.num_children = n.width

(* The bytes beside OpBytes: the next byte is handed to full nodes only;   *)
(* FillBytes fill a Flat16 that holds OpBytes in ascending order up to its *)
(* width, lowest first, and a node that holds one of them takes add_child  *)
(* only.                                                                   *)
FillBytes == {SetMax(OpBytes) + 1 + i : i \in 1..(W16 - Cardinality(OpBytes))}

HasFiller(n) == \E b \in FillBytes : NodeFindChild(n, b) # NullRef

OpAddChild(b, t) ==
    /\ CASE b \in OpBytes ->
                \/ IsFull(heap[nd.ref])
                \/ /\ NodeFindChild(heap[nd.ref], b) = NullRef
                   /\ ~HasFiller(heap[nd.ref])
         [] b \in FillBytes ->
                /\ heap[nd.ref].kind = "Flat"
                /\ heap[nd.ref].width = W16
                /\ heap[nd.ref].num_children >= Cardinality(OpBytes)
                /\ \A i \in 1..Cardinality(OpBytes) :
                        heap[nd.ref].keys[i] = SortedSeq(OpBytes)[i]
                /\ b = SetMax(OpBytes) + 2 + heap[nd.ref].num_children
                            - Cardinality(OpBytes)
         [] OTHER -> IsFull(heap[nd.ref])
    /\ LET c == Alloc(heap, NewTwig(<<>>, <<b>>, "u", t))
       IN  OpInstall(NodeAddChild(c.heap, nd.ref, b, c.ref), "add_child", b,
                     c.ref)

OpReplaceChild(b, t) ==
    /\ NodeFindChild(heap[nd.ref], b) # NullRef
    /\ ~HasFiller(heap[nd.ref])
    /\ LET c == Alloc(heap, NewTwig(<<>>, <<b>>, "u", t))
       IN  OpInstall(NodeReplaceChild(c.heap, nd.ref, b, c.ref),
                     "replace_child", b, c.ref)

OpDeleteChild(b) ==
    /\ NodeFindChild(heap[nd.ref], b) # NullRef
    /\ ~HasFiller(heap[nd.ref])
    /\ OpInstall(NodeDeleteChild(heap, nd.ref, b), "delete_child", b, NullRef)

(* delete_child of a byte a Node256 holds no child under.                  *)
OpDeleteAbsent(b) ==
    /\ heap[nd.ref].kind = "N256"
    /\ NodeFindChild(heap[nd.ref], b) = NullRef
    /\ OpInstall(NodeDeleteChild(heap, nd.ref, b), "delete_child absent", b,
                 NullRef)

(* The conversions; the key recorded is the capacity of the target tier.   *)
OpGrow ==
    /\ heap[nd.ref].kind \in {"Flat", "N48"}
    /\ IF heap[nd.ref].kind = "Flat"
       THEN OpInstall(FlatGrow(heap, nd.ref), "grow", W48, NullRef)
       ELSE OpInstall(N48Grow(heap, nd.ref), "grow", W256, NullRef)

OpShrink(w) ==
    /\ heap[nd.ref].kind \in {"N48", "N256"}
    /\ IF heap[nd.ref].kind = "N48"
       THEN OpInstall(N48Shrink(heap, nd.ref, w), "shrink", w, NullRef)
       ELSE OpInstall(N256Shrink(heap, nd.ref), "shrink", W48, NullRef)

OpResize(w) ==
    /\ heap[nd.ref].kind = "Flat"
    /\ OpInstall(FlatResize(heap, nd.ref, w), "resize", w, NullRef)

NextOps ==
    \/ \E b \in OpBytes \cup {SetMax(OpBytes) + 1} \cup FillBytes :
            OpAddChild(b, b % (MaxTs + 1))
    \/ \E b \in OpBytes : OpReplaceChild(b, b % (MaxTs + 1))
    \/ \E b \in OpBytes : OpDeleteChild(b)
    \/ \E b \in OpBytes : OpDeleteAbsent(b)
    \/ OpGrow
    \/ \E w \in {W4, W16} : OpShrink(w)
    \/ \E w \in {W4, W16} : OpResize(w)

SpecOps == InitOps /\ [][NextOps]_vars

(* C11: capacity overflow is fatal.  add_child on a Flat node that holds   *)
(* WIDTH children returns no node, whatever the byte: it panics, and the   *)
(* receiver is as it was.                                                  *)
C11_OverflowFatal ==
    nd.op = "add_child" /\ IsFull(nd.before) =>
        /\ nd.panicked
        /\ heap[nd.self] = nd.before
        /\ nd.ref = nd.self

(* add_child panicked on a full Flat16, for a byte it does not hold.       *)
C11_Witness ==
    /\ nd.op = "add_child"
    /\ nd.panicked
    /\ nd.before.kind = "Flat"
    /\ nd.before.num_children = W16
    /\ FlatIndex(nd.before, nd.key) = NoIndex

(* The byte-to-child mapping of a node: find_child on all 256 bytes.       *)
Mapping(n) == [b \in 0..(W256 - 1) |-> NodeFindChild(n, b)]

(* C12: lookup after add, for every tier.  A new node finds no child; the  *)
(* node add_child(b, c) returns finds c under b and, under every other     *)
(* byte, what the receiver found there (None where nothing was added,      *)
(* byte 0 of a Flat node included); so every child found under a byte is   *)
(* the one added under it.                                                 *)
C12_LookupAfterAdd ==
    /\ nd.op = "new" =>
            \A b \in 0..(W256 - 1) : Mapping(heap[nd.ref])[b] = NullRef
    /\ (nd.op = "add_child" /\ ~nd.panicked) =>
            /\ Mapping(heap[nd.ref])[nd.key] = nd.child
            /\ \A b \in 0..(W256 - 1) \ {nd.key} :
                    Mapping(heap[nd.ref])[b] = Mapping(nd.before)[b]
    /\ \A b \in 0..(W256 - 1) :
            Mapping(heap[nd.ref])[b] # NullRef =>
                heap[Mapping(heap[nd.ref])[b]].values[1].key = <<b>>

(* add_child returned a Flat node of three children whose keys are not in  *)
(* ascending order and none of which is byte 0.                            *)
C12_Witness ==
    /\ (nd.op = "add_child" /\ ~nd.panicked)
    /\ heap[nd.ref].kind = "Flat"
    /\ heap[nd.ref].num_children = 3
    /\ heap[nd.ref].keys[1] > heap[nd.ref].keys[2]
    /\ Mapping(heap[nd.ref])[0] = NullRef

(* C13: delete_child, for every tier.  The node delete_child(b) returns    *)
(* finds no child under b and, under every other byte, the child the       *)
(* receiver found; it counts one child less, and none once every byte is   *)
(* deleted.                                                                *)
C13_DeleteChild ==
    (nd.op = "delete_child" /\ ~nd.panicked) =>
        /\ Mapping(heap[nd.ref])[nd.key] = NullRef
        /\ \A b \in 0..(W256 - 1) \ {nd.key} :
                Mapping(heap[nd.ref])[b] = Mapping(nd.before)[b]
        /\ heap[nd.ref].num_children = nd.before.num_children - 1
        /\ (\A b \in 0..(W256 - 1) : Mapping(heap[nd.ref])[b] = NullRef) =>
                heap[nd.ref].num_children = 0

(* delete_child took the last child of a Node256.                          *)
C13_Witness ==
    /\ (nd.op = "delete_child" /\ ~nd.panicked)
    /\ heap[nd.ref].kind = "N256"
    /\ nd.before.num_children = 1
    /\ heap[nd.ref].num_children = 0

(* C14: tier conversions preserve content.  resize, grow and shrink of a   *)
(* node whose children fit the target tier return a node of that tier      *)
(* with the same prefix, the same num_children and the same child under    *)
(* each of the 256 bytes.                                                  *)
C14_ConversionsPreserve ==
    (nd.op \in {"grow", "shrink", "resize"}
        /\ nd.before.num_children <= nd.key) =>
        /\ ~nd.panicked
        /\ NodeSize(heap[nd.ref]) = nd.key
        /\ heap[nd.ref].prefix = nd.before.prefix
        /\ heap[nd.ref].num_children = nd.before.num_children
        /\ Mapping(heap[nd.ref]) = Mapping(nd.before)

(* A Node48 of sixteen children shrunk to a Flat16.                        *)
C14_Witness ==
    /\ (nd.op = "shrink" /\ ~nd.panicked)
    /\ nd.before.kind = "N48"
    /\ heap[nd.ref].kind = "Flat"
    /\ heap[nd.ref].num_children = W16

(* C15: Flat keys stay sorted.  In a Flat node built by add_child of       *)
(* distinct bytes and delete_child, keys[0..num_children] is strictly      *)
(* ascending.                                                              *)
C15_FlatKeysSorted ==
    heap[nd.ref].kind = "Flat" =>
        \A i \in 1..(heap[nd.ref].num_children - 1) :
            heap[nd.ref].keys[i] < heap[nd.ref].keys[i + 1]

(* C16: node operations are functional.  add_child, replace_child and      *)
(* delete_child leave the receiver as it was (its children, num_children   *)
(* and ts), and the node returned holds, under every byte but the operated *)
(* one, the very child the receiver holds there.                           *)
C16_Functional ==
    nd.op \in {"add_child", "replace_child", "delete_child"} =>
        /\ heap[nd.self] = nd.before
        /\ Mapping(heap[nd.self]) = Mapping(nd.before)
        /\ ~nd.panicked =>
                /\ nd.ref # nd.self
                /\ \A b \in 0..(W256 - 1) \ {nd.key} :
                        Mapping(heap[nd.ref])[b] = Mapping(heap[nd.self])[b]

(* replace_child on a Node48 of three children, two of them shared by the  *)
(* receiver and the node returned.                                         *)
C16_Witness ==
    /\ (nd.op = "replace_child" /\ ~nd.panicked)
    /\ nd.before.kind = "N48"
    /\ nd.before.num_children = 3
    /\ Cardinality({b \in 0..(W256 - 1) :
            /\ Mapping(heap[nd.ref])[b] # NullRef
            /\ Mapping(heap[nd.ref])[b] = Mapping(heap[nd.self])[b]}) = 2

-----------------------------------------------------------------------------
(* A twig under TwigNode::insert and insert_mut, with keys of any kind,    *)
(* built with either loop of slice::binary_search_by (nd.std).             *)

(* nd.twig is the twig in hand, nd.self the receiver of the last insert as *)
(* the caller holds it after the call, nd.before the receiver as it was,   *)
(* nd.mut a clone of the receiver after insert_mut with the arguments of   *)
(* the last insert.                                                        *)
InitTwig ==
    /\ nd \in {[std |-> std, twig |-> TwigNew(<<7>>), self |-> TwigNew(<<7>>),
                before |-> TwigNew(<<7>>), mut |-> TwigNew(<<7>>),
                op |-> "new", arg |-> LeafValue(<<>>, "u", 0)] :
               std \in {"early", "branchless"}}
    /\ heap = <<>>
    /\ root = NullRef
    /\ log = {}
    /\ snap = NoSnap
    /\ rd = IterEmpty
    /\ rg = NoRange

TwigOpInsert(k, v, t) ==
    /\ Len(nd.twig.values) <= MaxTwigValues
    /\ nd' = [nd EXCEPT
                !.twig = TwigInsert(nd.std, nd.twig, k, v, t),
                !.self = nd.twig,
                !.before = nd.twig,
                !.mut = TwigInsertMut(nd.std, nd.twig, k, v, t),
                !.op = "insert",
                !.arg = LeafValue(k, v, t)]
    /\ UNCHANGED <<heap, root, log, snap, rd, rg>>

NextTwig == \E k \in TwigKeys, v \in Values, t \in Timestamps :
                TwigOpInsert(k, v, t)

SpecTwig == InitTwig /\ [][NextTwig]_vars

(* C17: twig insert replaces or inserts.  If the receiver's values held an *)
(* entry with the key, the list returned has the same length and the new   *)
(* entry at the index of such an entry; otherwise it is one longer, with   *)
(* the new entry at the position binary search on ts gives; the receiver   *)
(* is unchanged.                                                           *)
C17_TwigInsert ==
    nd.op = "insert" =>
        /\ nd.self = nd.before
        /\ IF \E i \in 1..Len(nd.before.values) :
                    nd.before.values[i].key = nd.arg.key
           THEN /\ Len(nd.twig.values) = Len(nd.before.values)
                /\ \E i \in 1..Len(nd.before.values) :
                        /\ nd.before.values[i].key = nd.arg.key
                        /\ nd.twig.values =
                                [nd.before.values EXCEPT ![i] = nd.arg]
           ELSE nd.twig.values =
                    InsertAt(nd.before.values,
                        BinarySearchBy(nd.std,
                            [i \in 1..Len(nd.before.values) |->
                                IntCmp(nd.before.values[i].ts, nd.arg.ts)]).index,
                        nd.arg)

(* C18: twig timestamp after insert.  The ts of the twig insert returns is *)
(* the greatest of the ts of its values and the ts of the receiver, so it  *)
(* never decreases.                                                        *)
C18_TwigTsAfterInsert ==
    nd.op = "insert" =>
        /\ nd.twig.ts =
                Max(MaxOrZero({nd.twig.values[j].ts :
                                    j \in 1..Len(nd.twig.values)}),
                    nd.before.ts)
        /\ nd.twig.ts >= nd.before.ts

(* C19: insert_mut is the in-place form of insert.  The twig after         *)
(* insert_mut has the values, in the same order, and the ts of the twig    *)
(* insert returns for the same arguments.                                  *)
C19_InsertMutAsInsert ==
    nd.op = "insert" =>
        /\ nd.mut.values = nd.twig.values
        /\ nd.mut.ts = nd.twig.ts

(* A twig of two keys, its list no longer in ts order, took an insert that *)
(* lowered its ts.                                                         *)
C19_Witness ==
    /\ nd.op = "insert"
    /\ Len(nd.before.values) = 2
    /\ nd.before.values[1].key # nd.before.values[2].key
    /\ nd.before.values[1].ts > nd.before.values[2].ts
    /\ nd.twig.ts < nd.before.ts
    /\ nd.mut.ts = nd.twig.ts

-----------------------------------------------------------------------------
(* One interior node under update_ts, beside the operations above.  Its ts *)
(* is a pub field: a caller writes any timestamp to it, as the struct      *)
(* literal of test_flatnode_repeated_update_ts does.  nd.before is the     *)
(* node as update_ts found it; nd.op tells a call that follows another.    *)

(* node.ts = t                                                             *)
TsWrite(t) ==
    /\ heap[nd.ref].ts # t
    /\ heap' = [heap EXCEPT ![nd.ref].ts = t]
    /\ nd' = [nd EXCEPT !.op = "ts", !.self = nd.ref, !.key = 0,
                        !.child = NullRef, !.panicked = FALSE,
                        !.before = heap[nd.ref]]
    /\ UNCHANGED <<root, log, snap, rd, rg>>

(* node.update_ts(), at most twice in a row.                               *)
TsUpdateTs ==
    /\ nd.op # "update_ts again"
    /\ heap' = [heap EXCEPT ![nd.ref] = UpdateTs(heap, heap[nd.ref])]
    /\ nd' = [nd EXCEPT !.op = IF nd.op = "update_ts" THEN "update_ts again"
                               ELSE "update_ts",
                        !.self = nd.ref, !.key = 0, !.child = NullRef,
                        !.panicked = FALSE, !.before = heap[nd.ref]]
    /\ UNCHANGED <<root, log, snap, rd, rg>>

NextTs ==
    \/ \E b \in {0, 1}, t \in Timestamps : OpAddChild(b, t)
    \/ \E b \in {0, 1} : OpDeleteChild(b)
    \/ OpGrow
    \/ \E t \in Timestamps : TsWrite(t)
    \/ TsUpdateTs

SpecTs == InitOps /\ [][NextTs]_vars

(* C20: update_ts is a monotone, idempotent raise.  After update_ts the ts *)
(* of the node is the greater of its ts before and the greatest ts of its  *)
(* children, it is not below the ts before, nothing else of the node has   *)
(* changed, and a second call in a row leaves the ts of the first.         *)
C20_UpdateTs ==
    nd.op \in {"update_ts", "update_ts again"} =>
        /\ heap[nd.ref].ts =
                Max(nd.before.ts, MaxOrZero(ChildTs(heap, nd.ref)))
        /\ heap[nd.ref].ts >= nd.before.ts
        /\ heap[nd.ref] = [nd.before EXCEPT !.ts = heap[nd.ref].ts]
        /\ nd.op = "update_ts again" => heap[nd.ref].ts = nd.before.ts

(* A node whose ts was written above the ts of its only child, as in       *)
(* test_flatnode_repeated_update_ts, after update_ts twice in a row.       *)
C20_Witness ==
    /\ nd.op = "update_ts again"
    /\ heap[nd.ref].num_children = 1
    /\ ChildTs(heap, nd.ref) = {0}
    /\ heap[nd.ref].ts = MaxTs

-----------------------------------------------------------------------------
(* Iteration over the tree of the single writer.                           *)

(* C21: iteration is complete and exact.  iter() on the root yields one    *)
(* item per LeafValue stored in the twigs of the tree and nothing else:    *)
(* every item is a value of some twig, and the items that carry the key of *)
(* a twig are the values of that twig, each once, in their stored order;   *)
(* also when the root is a twig.                                           *)
C21_IterationExact ==
    /\ \A p \in 1..Len(IterCollect(heap, root)) :
            \E i \in 1..Len(heap) :
                /\ heap[i].kind = "Twig"
                /\ \E j \in 1..Len(heap[i].values) :
                        heap[i].values[j] = IterCollect(heap, root)[p]
    /\ \A i \in 1..Len(heap) :
            (heap[i].kind = "Twig" /\ Len(heap[i].values) > 0) =>
                SelectSeq(IterCollect(heap, root),
                          LAMBDA x : x.key = heap[i].values[1].key)
                    = heap[i].values

-----------------------------------------------------------------------------
(* An iterator driven to its end and beyond.  Iter<'a> borrows the tree,   *)
(* so the writer works only before iter(); from then on the one step is    *)
(* the caller's next(), which a caller that drains the iterator keeps      *)
(* taking.  nd counts the calls and the items and holds the last result;   *)
(* the caller makes three calls more than the tree can hold entries.       *)

InitIter ==
    /\ heap = <<>>
    /\ root = NullRef
    /\ log = {}
    /\ nd = [op |-> "new", calls |-> 0, items |-> 0, some |-> FALSE,
             ended |-> FALSE]
    /\ snap = NoSnap
    /\ rd = IterEmpty
    /\ rg = NoRange

(* tree.iter().                                                            *)
IterOpen ==
    /\ nd.op = "new"
    /\ rd' = IterNew(heap, root)
    /\ nd' = [nd EXCEPT !.op = "iter"]
    /\ UNCHANGED <<heap, root, log, snap, rg>>

(* One Iter::next().                                                       *)
IterStep ==
    /\ nd.op = "iter"
    /\ nd.calls < MaxEntries + 3
    /\ LET e == IterNext(heap, rd)
       IN  /\ rd' = e.st
           /\ nd' = [nd EXCEPT !.calls = @ + 1,
                               !.items = IF e.some THEN @ + 1 ELSE @,
                               !.some = e.some,
                               !.ended = @ \/ ~e.some]
    /\ UNCHANGED <<heap, root, log, snap, rg>>

NextIter ==
    \/ \E k \in SnapKeys, v \in Values : nd.op = "new" /\ Insert(k, v, 0)
    \/ \E k \in SnapKeys : nd.op = "new" /\ Remove(k)
    \/ IterOpen
    \/ IterStep

SpecIter == InitIter /\ [][NextIter]_vars /\ WF_vars(IterStep)

(* C22: iteration terminates.  Once iter() is taken on a tree, next()      *)
(* comes to return None; at a None the node-iterator stack and the leaf    *)
(* queue are both empty, and every call after a None returns None.         *)
C22_IterationTerminates ==
    /\ (nd.op = "iter") ~> nd.ended
    /\ [](nd.ended => (/\ ~nd.some
                       /\ Len(rd.node_iter) = 0
                       /\ Len(rd.leafs) = 0))

(* Three items were yielded, then None, then None again.                   *)
C22_Witness ==
    /\ nd.ended
    /\ nd.items = 3
    /\ nd.calls = 5
    /\ ~nd.some

-----------------------------------------------------------------------------
(* Calls of next() on a Range after it returned None.                      *)

(* C23: a range iterator stays ended.  Once next() on a Range has returned *)
(* None, every later call returns None, whatever the end bound.            *)
C23_RangeStaysEnded ==
    rg # NoRange =>
        \A i \in 1..Len(rg.out) :
            i > FirstNone(rg.out) => ~rg.out[i].some

-----------------------------------------------------------------------------
(* The two arrays of a Node48 under add_child and delete_child.            *)

(* C24: Node48 index consistency.  In every Node48 that add_child (byte    *)
(* not present) and delete_child (byte present) produce, every mapped byte *)
(* points to an occupied slot of children, every occupied slot is pointed  *)
(* to by exactly one byte (so no two bytes share a slot), and num_children *)
(* is the number of mapped bytes.                                          *)
C24_Node48Index ==
    \A i \in 1..Len(heap) :
        heap[i].kind = "N48" =>
            /\ \A b \in 0..(W256 - 1) :
                    VecGet(heap[i].child_ptr_indexes, b) # NoIndex =>
                        /\ VecGet(heap[i].child_ptr_indexes, b) \in 0..(W48 - 1)
                        /\ VecGet(heap[i].children,
                                  VecGet(heap[i].child_ptr_indexes, b)) # NullRef
            /\ \A p \in 0..(W48 - 1) :
                    VecGet(heap[i].children, p) # NullRef =>
                        Cardinality({b \in 0..(W256 - 1) :
                            VecGet(heap[i].child_ptr_indexes, b) = p}) = 1
            /\ heap[i].num_children =
                    Cardinality({b \in 0..(W256 - 1) :
                        VecGet(heap[i].child_ptr_indexes, b) # NoIndex})

(* add_child on a Node48 put the child into a slot that a delete_child had *)
(* freed, below a slot still in use.                                       *)
C24_Witness ==
    /\ nd.op = "add_child"
    /\ ~nd.panicked
    /\ nd.before.kind = "N48"
    /\ heap[nd.ref].kind = "N48"
    /\ \E p \in 0..(W48 - 2) :
            /\ VecGet(heap[nd.ref].child_ptr_indexes, nd.key) = p
            /\ VecGet(nd.before.children, p) = NullRef
            /\ VecGet(nd.before.children, p + 1) # NullRef

-----------------------------------------------------------------------------
(* delete_child of a byte that a Node256 does not hold.                    *)

(* C25: deleting an absent byte on Node256 is a no-op.  delete_child(b) on *)
(* a Node256 with no child under b returns a node with the same child      *)
(* under each of the 256 bytes and the same num_children as the receiver,  *)
(* and num_children is the number of occupied slots.                       *)
C25_DeleteAbsent ==
    (/\ nd.op = "delete_child absent"
     /\ nd.before.kind = "N256"
     /\ Mapping(nd.before)[nd.key] = NullRef) =>
        /\ ~nd.panicked
        /\ heap[nd.ref].kind = "N256"
        /\ Mapping(heap[nd.ref]) = Mapping(nd.before)
        /\ heap[nd.ref].num_children = nd.before.num_children
        /\ heap[nd.ref].num_children =
                Cardinality({b \in 0..(W256 - 1) :
                    Mapping(heap[nd.ref])[b] # NullRef})

(* delete_child of an absent byte on a Node256 that holds two children.    *)
C25_Witness ==
    /\ nd.op = "delete_child absent"
    /\ ~nd.panicked
    /\ nd.before.kind = "N256"
    /\ nd.before.num_children = 2
    /\ Mapping(nd.before)[nd.key] = NullRef
    /\ nd.ref # nd.self

=============================================================================
